---- MODULE Spec2Model ----
(***************************************************************************)
(* Model of polyscope's PointCloudScalarQuantity                           *)
(* (src/3rd_party/polyscope/src/point_cloud_scalar_quantity.cpp).          *)
(*                                                                         *)
(* Numbers.  A C++ double is modelled by an integer of -MaxVal..MaxVal.    *)
(* vizRange is handed to ImGui::DragFloatRange2 by address (lines 108,     *)
(* 113, 117), so its two members are C++ floats, while setMapRange,        *)
(* getMapRange, robustMinMax and make_pair(0., ...) work on doubles.  A    *)
(* float is modelled by an even integer: every second double is exactly    *)
(* representable, the others are rounded to the nearest float, ties to the *)
(* float with the even significand (a multiple of four).                   *)
(***************************************************************************)
EXTENDS Integers, Sequences, FiniteSets, TLC

\* ---------------------------------------------------------------- bounds
MaxVal == 2
MaxLen == 2

\* trim fraction 1e-5 handed to robustMinMax, in units of 1/100000
TrimPerHundredThousand == 1

Doubles == (0 - MaxVal)..MaxVal
DataTypes == {"STANDARD", "SYMMETRIC", "MAGNITUDE"}
ColorMapIDs == {"viridis", "coolwarm", "blues"}
ValueSeqs == UNION {[1..n -> Doubles] : n \in 1..MaxLen}
\* the owning cloud has MaxLen points; values may be shorter
PointCounts == {MaxLen}

\* ------------------------------------------------------- numeric helpers
Abs(x) == IF x < 0 THEN 0 - x ELSE x
Max(a, b) == IF a < b THEN b ELSE a
Min(a, b) == IF b < a THEN b ELSE a

\* double -> float, round to nearest, ties to even
ToFloat(x) ==
  IF x % 2 = 0 THEN x
  ELSE IF (x + 1) % 4 = 0 THEN x + 1 ELSE x - 1

\* float -> double is exact
ToDouble(f) == f

\* pair<double,double> assigned to / read from the pair<float,float> vizRange
PairToFloat(p) == <<ToFloat(p[1]), ToFloat(p[2])>>
PairToDouble(p) == <<ToDouble(p[1]), ToDouble(p[2])>>

Floats == {ToFloat(x) : x \in Doubles}
OrderedPairs == {p \in Doubles \X Doubles : p[1] <= p[2]}

\* ------------------------------------------------------- collaborators
\* outlier-trimmed min/max: rank the values, drop the lowest and highest
\* trim fraction, never down to an empty working set
robustMinMax(vals, trimPer100k) ==
  LET sorted == SortSeq(vals, <)
      n      == Len(vals)
      k      == (n * trimPer100k) \div 100000
      kept   == IF 2 * k < n THEN SubSeq(sorted, 1 + k, n - k) ELSE sorted
  IN  <<kept[1], kept[Len(kept)]>>

\* one fixed default colormap per data type
defaultColorMap(dt) ==
  CASE dt = "STANDARD"  -> "viridis"
    [] dt = "SYMMETRIC" -> "coolwarm"
    [] dt = "MAGNITUDE" -> "blues"

VARIABLES
  values,          \* std::vector<double> values
  nPoints,         \* parent.points.size()
  dataType,        \* const DataType
  dataRange,       \* std::pair<double,double>
  vizRange,        \* std::pair<float,float>
  cMap,            \* PersistentValue<gl::ColorMapID>
  hist,            \* Histogram: colormap, histogram data, colormapRange
  pointProgram,    \* std::unique_ptr<gl::GLProgram>: <<>> is nullptr
  enabled,         \* Quantity::isEnabled()
  redrawRequested, \* flag raised by requestRedraw()
  errors,          \* messages handed to polyscope::error
  lastCall         \* the last call: its name, argument and result

vars == <<values, nPoints, dataType, dataRange, vizRange, cMap, hist,
          pointProgram, enabled, redrawRequested, errors, lastCall>>

\* a call; a getter also notes the call directly before it when that call
\* is its setter
Call(op, arg, ret) == [op |-> op, arg |-> arg, ret |-> ret, prev |-> <<>>]
CallAfter(op, arg, ret, setter, before) ==
  [op |-> op, arg |-> arg, ret |-> ret,
   prev |-> IF before.op = setter THEN <<before.op, before.arg>> ELSE <<>>]

\* ------------------------------------------------------------ operations
\* resetMapRange with std::abs forgotten in the SYMMETRIC case
resetMapRangeValue_noAbs(dt, dr) ==
  CASE dt = "STANDARD"  -> PairToFloat(dr)
    [] dt = "SYMMETRIC" ->
         LET absRange == Max(dr[1], dr[2])
         IN  PairToFloat(<<0 - absRange, absRange>>)
    [] dt = "MAGNITUDE" -> PairToFloat(<<0, dr[2]>>)

\* resetMapRange with the break of the STANDARD case missing: it falls
\* through to the SYMMETRIC case
resetMapRangeValue_standardFallsThrough(dt, dr) ==
  CASE dt \in {"STANDARD", "SYMMETRIC"} ->
         LET absRange == Max(Abs(dr[1]), Abs(dr[2]))
         IN  PairToFloat(<<0 - absRange, absRange>>)
    [] dt = "MAGNITUDE" -> PairToFloat(<<0, dr[2]>>)

\* resetMapRange with the break of the SYMMETRIC case missing: it falls
\* through to the MAGNITUDE case
resetMapRangeValue_symmetricFallsThrough(dt, dr) ==
  CASE dt = "STANDARD"  -> PairToFloat(dr)
    [] dt \in {"SYMMETRIC", "MAGNITUDE"} -> PairToFloat(<<0, dr[2]>>)

\* resetMapRange keeping the data's low bound in the MAGNITUDE case
resetMapRangeValue_magnitudeKeepsLow(dt, dr) ==
  CASE dt = "STANDARD"  -> PairToFloat(dr)
    [] dt = "SYMMETRIC" ->
         LET absRange == Max(Abs(dr[1]), Abs(dr[2]))
         IN  PairToFloat(<<0 - absRange, absRange>>)
    [] dt = "MAGNITUDE" -> PairToFloat(dr)

\* the switch of resetMapRange: the vizRange it assigns, by data type
resetMapRangeValue(dt, dr) ==
  CASE dt = "STANDARD"  -> PairToFloat(dr)
    [] dt = "SYMMETRIC" ->
         LET absRange == Max(Abs(dr[1]), Abs(dr[2]))
         IN  PairToFloat(<<0 - absRange, absRange>>)
    [] dt = "MAGNITUDE" -> PairToFloat(<<0, dr[2]>>)

\* the size check of the constructor: the messages handed to polyscope::error
sizeCheck(values_, nPts) ==
  IF Len(values_) # nPts
    THEN <<[nValues |-> Len(values_), nPoints |-> nPts]>>
    ELSE <<>>

\* the constructor returning right after it reported the size mismatch
PointCloudScalarQuantity_returnsOnError(values_, nPts, dataType_) ==
  LET cm == defaultColorMap(dataType_)
      dr == robustMinMax(values_, TrimPerHundredThousand)
      ok == Len(values_) = nPts
  IN  [errors          |-> sizeCheck(values_, nPts),
       values          |-> IF ok THEN values_ ELSE <<>>,
       cMap            |-> cm,
       hist            |-> [cmap |-> cm, values |-> IF ok THEN values_ ELSE <<>>,
                            colormapRange |-> <<0, 0>>],
       dataRange       |-> IF ok THEN dr ELSE <<0, 0>>,
       vizRange        |-> IF ok THEN resetMapRangeValue(dataType_, dr)
                                 ELSE <<0, 0>>,
       redrawRequested |-> ok,
       pointProgram    |-> <<>>]

\* the constructor: the fields of the quantity it leaves behind
PointCloudScalarQuantity(values_, nPts, dataType_) ==
  LET cm == defaultColorMap(dataType_)
      dr == robustMinMax(values_, TrimPerHundredThousand)
  IN  [errors          |-> sizeCheck(values_, nPts),
       values          |-> values_,
       cMap            |-> cm,
       hist            |-> [cmap |-> cm, values |-> values_,
                            colormapRange |-> <<0, 0>>],
       dataRange       |-> dr,
       vizRange        |-> resetMapRangeValue(dataType_, dr),
       redrawRequested |-> TRUE,
       pointProgram    |-> <<>>]

\* createPointProgram: the program it builds
createPointProgram ==
  <<[a_position |-> nPoints, a_value |-> values, t_colormap |-> cMap]>>

\* setColorMap ignoring its argument
setColorMapValue_ignoresArgument(val) == "viridis"

\* the value setColorMap stores in cMap
setColorMapValue(val) == val

\* setMapRange clamping its argument to non-negative bounds
setMapRangeValue_clamps(val) == PairToFloat(<<Max(0, val[1]), Max(0, val[2])>>)

\* the value setMapRange stores in vizRange
setMapRangeValue(val) == PairToFloat(val)

\* geometryChanged keeping the program
geometryChangedProgram_keeps(prog) == prog

\* the program geometryChanged leaves behind
geometryChangedProgram(prog) == <<>>

Init ==
  \E values_ \in ValueSeqs, nPts \in PointCounts, dataType_ \in DataTypes :
    LET q == PointCloudScalarQuantity(values_, nPts, dataType_)
    IN  /\ values = q.values
        /\ nPoints = nPts
        /\ dataType = dataType_
        /\ dataRange = q.dataRange
        /\ vizRange = q.vizRange
        /\ cMap = q.cMap
        /\ hist = q.hist
        /\ pointProgram = q.pointProgram
        /\ enabled = FALSE
        /\ redrawRequested = q.redrawRequested
        /\ errors = q.errors
        /\ lastCall = Call("PointCloudScalarQuantity", <<values_, nPts, dataType_>>, <<>>)

\* resetMapRange mirroring the current range instead of recomputing it
resetMapRange_mirrorsCurrent ==
  /\ vizRange' = IF dataType = "SYMMETRIC"
                   THEN <<0 - vizRange[2], 0 - vizRange[1]>>
                   ELSE resetMapRangeValue(dataType, dataRange)
  /\ redrawRequested' = TRUE
  /\ lastCall' = Call("resetMapRange", <<>>, <<>>)
  /\ UNCHANGED <<values, nPoints, dataType, dataRange, cMap, hist,
                 pointProgram, enabled, errors>>

resetMapRange ==
  /\ vizRange' = resetMapRangeValue(dataType, dataRange)
  /\ redrawRequested' = TRUE
  /\ lastCall' = Call("resetMapRange", <<>>, <<>>)
  /\ UNCHANGED <<values, nPoints, dataType, dataRange, cMap, hist,
                 pointProgram, enabled, errors>>

\* setMapRange without its requestRedraw()
setMapRange_noRedraw(val) ==
  /\ vizRange' = setMapRangeValue(val)
  /\ lastCall' = Call("setMapRange", val, <<>>)
  /\ UNCHANGED <<values, nPoints, dataType, dataRange, cMap, hist,
                 pointProgram, enabled, redrawRequested, errors>>

\* setMapRange throwing the draw program away
setMapRange_resetsProgram(val) ==
  /\ vizRange' = setMapRangeValue(val)
  /\ pointProgram' = <<>>
  /\ redrawRequested' = TRUE
  /\ lastCall' = Call("setMapRange", val, <<>>)
  /\ UNCHANGED <<values, nPoints, dataType, dataRange, cMap, hist,
                 enabled, errors>>

setMapRange(val) ==
  /\ vizRange' = setMapRangeValue(val)
  /\ redrawRequested' = TRUE
  /\ lastCall' = Call("setMapRange", val, <<>>)
  /\ UNCHANGED <<values, nPoints, dataType, dataRange, cMap, hist,
                 pointProgram, enabled, errors>>

getMapRange ==
  /\ lastCall' = CallAfter("getMapRange", <<>>, PairToDouble(vizRange),
                           "setMapRange", lastCall)
  /\ UNCHANGED <<values, nPoints, dataType, dataRange, vizRange, cMap, hist,
                 pointProgram, enabled, redrawRequested, errors>>

\* setColorMap without its hist.updateColormap
setColorMap_skipsHistogram(val) ==
  /\ cMap' = setColorMapValue(val)
  /\ redrawRequested' = TRUE
  /\ lastCall' = Call("setColorMap", val, <<>>)
  /\ UNCHANGED <<values, nPoints, dataType, dataRange, vizRange, hist,
                 pointProgram, enabled, errors>>

setColorMap(val) ==
  /\ cMap' = setColorMapValue(val)
  /\ hist' = [hist EXCEPT !.cmap = cMap']
  /\ redrawRequested' = TRUE
  /\ lastCall' = Call("setColorMap", val, <<>>)
  /\ UNCHANGED <<values, nPoints, dataType, dataRange, vizRange,
                 pointProgram, enabled, errors>>

getColorMap ==
  /\ lastCall' = CallAfter("getColorMap", <<>>, cMap, "setColorMap", lastCall)
  /\ UNCHANGED <<values, nPoints, dataType, dataRange, vizRange, cMap, hist,
                 pointProgram, enabled, redrawRequested, errors>>

geometryChanged ==
  /\ pointProgram' = geometryChangedProgram(pointProgram)
  /\ lastCall' = Call("geometryChanged", <<>>, [hadProgram |-> pointProgram # <<>>])
  /\ UNCHANGED <<values, nPoints, dataType, dataRange, vizRange, cMap, hist,
                 enabled, redrawRequested, errors>>

\* draw without its isEnabled() check
draw_ignoresEnabled ==
  /\ pointProgram' = IF pointProgram = <<>>
                       THEN createPointProgram ELSE pointProgram
  /\ lastCall' =
       Call("draw", <<>>,
            [drawn |-> TRUE, created |-> (pointProgram = <<>>),
             u_rangeLow |-> vizRange[1], u_rangeHigh |-> vizRange[2],
             t_colormap |-> pointProgram'[1].t_colormap])
  /\ UNCHANGED <<values, nPoints, dataType, dataRange, vizRange, cMap, hist,
                 enabled, redrawRequested, errors>>

\* draw building a new program on every call
draw_alwaysRebuilds ==
  /\ pointProgram' = IF enabled THEN createPointProgram ELSE pointProgram
  /\ lastCall' =
       IF enabled
         THEN Call("draw", <<>>,
                   [drawn |-> TRUE, created |-> TRUE,
                    u_rangeLow |-> vizRange[1], u_rangeHigh |-> vizRange[2],
                    t_colormap |-> pointProgram'[1].t_colormap])
         ELSE Call("draw", <<>>, [drawn |-> FALSE])
  /\ UNCHANGED <<values, nPoints, dataType, dataRange, vizRange, cMap, hist,
                 enabled, redrawRequested, errors>>

\* a disabled quantity returns at once; an enabled one builds the program when
\* there is none, sets the range uniforms and draws
draw ==
  /\ pointProgram' = IF enabled /\ pointProgram = <<>>
                       THEN createPointProgram ELSE pointProgram
  /\ lastCall' =
       IF enabled
         THEN Call("draw", <<>>,
                   [drawn |-> TRUE, created |-> (pointProgram = <<>>),
                    u_rangeLow |-> vizRange[1], u_rangeHigh |-> vizRange[2],
                    t_colormap |-> pointProgram'[1].t_colormap])
         ELSE Call("draw", <<>>, [drawn |-> FALSE])
  /\ UNCHANGED <<values, nPoints, dataType, dataRange, vizRange, cMap, hist,
                 enabled, redrawRequested, errors>>

\* a magnitude no float of the model reaches, standing for FLT_MAX
FltMax == 4 * MaxVal + 4

\* ImGui::DragFloat on one handle: the value a drag to x leaves, clamped to
\* [lo, hi] only when lo < hi
DragFloat(x, lo, hi) ==
  IF lo < hi THEN Max(lo, Min(hi, x)) ELSE x

\* ImGui::DragFloatRange2: the pair it leaves in (v_current_min, v_current_max)
\* for the user's gesture: none, or one handle dragged to x
DragFloatRange2(cur, v_min, v_max, gesture) ==
  LET unbounded == v_min >= v_max
  IN  CASE gesture = <<>> -> cur
        [] gesture # <<>> /\ gesture[1] = "min" ->
             <<DragFloat(gesture[2],
                         IF unbounded THEN 0 - FltMax ELSE v_min,
                         IF unbounded THEN cur[2] ELSE Min(v_max, cur[2])),
               cur[2]>>
        [] gesture # <<>> /\ gesture[1] = "max" ->
             <<cur[1],
               DragFloat(gesture[2],
                         IF unbounded THEN cur[1] ELSE Max(v_min, cur[1]),
                         IF unbounded THEN FltMax ELSE v_max)>>

Gestures == {<<>>} \cup ({"min", "max"} \X Floats)

\* the slider bounds buildCustomUI hands to DragFloatRange2, by data type
sliderBounds(dt, dr) ==
  CASE dt = "STANDARD"  -> <<ToFloat(dr[1]), ToFloat(dr[2])>>
    [] dt = "SYMMETRIC" ->
         LET absRange == ToFloat(Max(Abs(dr[1]), Abs(dr[2])))
         IN  <<0 - absRange, absRange>>
    [] dt = "MAGNITUDE" -> <<ToFloat(0), ToFloat(dr[2])>>

\* a UI frame whose slider is bound to dataRange instead of vizRange
buildCustomUI_slidesDataRange(menuReset, selected, resetButton, gesture) ==
  LET changed == selected # <<>>
      reset   == menuReset \/ resetButton
      shown   == IF reset THEN resetMapRangeValue(dataType, dataRange)
                          ELSE vizRange
      bounds  == sliderBounds(dataType, dataRange)
  IN  /\ cMap' = IF changed THEN setColorMapValue(selected[1]) ELSE cMap
      /\ pointProgram' = IF changed THEN <<>> ELSE pointProgram
      /\ hist' = [cmap |-> IF changed THEN cMap' ELSE hist.cmap,
                  values |-> hist.values,
                  colormapRange |-> shown]
      /\ vizRange' = shown
      /\ dataRange' = DragFloatRange2(dataRange, bounds[1], bounds[2], gesture)
      /\ redrawRequested' = (redrawRequested \/ reset \/ changed)
      /\ lastCall' = Call("buildCustomUI",
                          <<reset, changed, gesture # <<>>>>, shown)
      /\ UNCHANGED <<values, nPoints, dataType, enabled, errors>>

\* a UI frame that hands the histogram the range after the slider has run
buildCustomUI_histAfterSlider(menuReset, selected, resetButton, gesture) ==
  LET changed == selected # <<>>
      reset   == menuReset \/ resetButton
      shown   == IF reset THEN resetMapRangeValue(dataType, dataRange)
                          ELSE vizRange
      bounds  == sliderBounds(dataType, dataRange)
  IN  /\ cMap' = IF changed THEN setColorMapValue(selected[1]) ELSE cMap
      /\ pointProgram' = IF changed THEN <<>> ELSE pointProgram
      /\ vizRange' = DragFloatRange2(shown, bounds[1], bounds[2], gesture)
      /\ hist' = [cmap |-> IF changed THEN cMap' ELSE hist.cmap,
                  values |-> hist.values,
                  colormapRange |-> vizRange']
      /\ redrawRequested' = (redrawRequested \/ reset \/ changed)
      /\ lastCall' = Call("buildCustomUI",
                          <<reset, changed, gesture # <<>>>>, shown)
      /\ UNCHANGED <<values, nPoints, dataType, dataRange, enabled, errors>>

\* one UI frame.  menuReset: the popup's "Reset colormap range" item was
\* chosen; selected: <<>> or <<id>>, the colormap picked in the selector;
\* resetButton: "Reset" was pressed; gesture: what the user did to the slider
buildCustomUI(menuReset, selected, resetButton, gesture) ==
  LET changed == selected # <<>>
      reset   == menuReset \/ resetButton
      shown   == IF reset THEN resetMapRangeValue(dataType, dataRange)
                          ELSE vizRange
      bounds  == sliderBounds(dataType, dataRange)
  IN  /\ cMap' = IF changed THEN setColorMapValue(selected[1]) ELSE cMap
      /\ pointProgram' = IF changed THEN <<>> ELSE pointProgram
      /\ hist' = [cmap |-> IF changed THEN cMap' ELSE hist.cmap,
                  values |-> hist.values,
                  colormapRange |-> shown]
      /\ vizRange' = DragFloatRange2(shown, bounds[1], bounds[2], gesture)
      /\ redrawRequested' = (redrawRequested \/ reset \/ changed)
      /\ lastCall' = Call("buildCustomUI",
                          <<reset, changed, gesture # <<>>>>, shown)
      /\ UNCHANGED <<values, nPoints, dataType, dataRange, enabled, errors>>

\* the readout row of a picked point.  ind is an index into the cloud's points;
\* reading values[ind] past the end of values is undefined: any double
buildPickUI(ind, garbage) ==
  /\ lastCall' = Call("buildPickUI", ind,
                      IF ind <= Len(values) THEN values[ind] ELSE garbage)
  /\ UNCHANGED <<values, nPoints, dataType, dataRange, vizRange, cMap, hist,
                 pointProgram, enabled, redrawRequested, errors>>

\* Quantity::setEnabled
setEnabled(newEnabled) ==
  /\ enabled' = newEnabled
  /\ redrawRequested' = TRUE
  /\ lastCall' = Call("setEnabled", newEnabled, <<>>)
  /\ UNCHANGED <<values, nPoints, dataType, dataRange, vizRange, cMap, hist,
                 pointProgram, errors>>

\* the main loop redraws the scene and lowers the redraw request
redrawServiced ==
  /\ redrawRequested
  /\ redrawRequested' = FALSE
  /\ lastCall' = Call("redrawServiced", <<>>, <<>>)
  /\ UNCHANGED <<values, nPoints, dataType, dataRange, vizRange, cMap, hist,
                 pointProgram, enabled, errors>>

Next ==
  \/ resetMapRange
  \/ \E val \in OrderedPairs : setMapRange(val)
  \/ getMapRange
  \/ \E val \in ColorMapIDs : setColorMap(val)
  \/ getColorMap
  \/ geometryChanged
  \/ draw
  \/ \E menuReset \in BOOLEAN, selected \in {<<>>} \cup {<<c>> : c \in ColorMapIDs},
        resetButton \in BOOLEAN, gesture \in Gestures :
       buildCustomUI(menuReset, selected, resetButton, gesture)
  \/ \E ind \in 1..nPoints, garbage \in Doubles : buildPickUI(ind, garbage)
  \/ \E newEnabled \in BOOLEAN : setEnabled(newEnabled)
  \/ redrawServiced

Spec == Init /\ [][Next]_vars

\* the programmatic interface alone: no UI frame is built
NextAPI ==
  \/ resetMapRange
  \/ \E val \in OrderedPairs : setMapRange(val)
  \/ getMapRange
  \/ \E val \in ColorMapIDs : setColorMap(val)
  \/ getColorMap
  \/ geometryChanged
  \/ draw
  \/ \E newEnabled \in BOOLEAN : setEnabled(newEnabled)
  \/ redrawServiced

SpecAPI == Init /\ [][NextAPI]_vars

\* construction followed by calls of the mutators and accessors only: nothing
\* is drawn
NextMutators ==
  \/ resetMapRange
  \/ \E val \in OrderedPairs : setMapRange(val)
  \/ getMapRange
  \/ \E val \in ColorMapIDs : setColorMap(val)
  \/ getColorMap
  \/ geometryChanged

SpecMutators == Init /\ [][NextMutators]_vars

\* the rendering side: enabling, drawing and what invalidates the program,
\* with the range left as construction or a reset set it
NextRender ==
  \/ draw
  \/ \E newEnabled \in BOOLEAN : setEnabled(newEnabled)
  \/ geometryChanged
  \/ \E val \in ColorMapIDs : setColorMap(val)
  \/ getColorMap
  \/ resetMapRange
  \/ redrawServiced

SpecRender == Init /\ [][NextRender]_vars

\* the user interface alone: reset actions, the colormap selector and the
\* slider, with no direct call of setMapRange or setColorMap
NextUI ==
  \/ \E menuReset \in BOOLEAN, selected \in {<<>>} \cup {<<c>> : c \in ColorMapIDs},
        resetButton \in BOOLEAN, gesture \in Gestures :
       buildCustomUI(menuReset, selected, resetButton, gesture)
  \/ \E ind \in 1..nPoints, garbage \in Doubles : buildPickUI(ind, garbage)
  \/ geometryChanged
  \/ draw
  \/ \E newEnabled \in BOOLEAN : setEnabled(newEnabled)
  \/ redrawServiced

SpecUI == Init /\ [][NextUI]_vars

\* the range and its way to the shader: resets, direct range changes, slider
\* gestures and draws
NextDrawRange ==
  \/ resetMapRange
  \/ \E val \in OrderedPairs : setMapRange(val)
  \/ \E gesture \in Gestures : buildCustomUI(FALSE, <<>>, FALSE, gesture)
  \/ draw
  \/ \E newEnabled \in BOOLEAN : setEnabled(newEnabled)

SpecDrawRange == Init /\ [][NextDrawRange]_vars

\* the redraw request: the calls that raise it and the main loop lowering it
NextRedraw ==
  \/ resetMapRange
  \/ \E val \in OrderedPairs : setMapRange(val)
  \/ \E val \in ColorMapIDs : setColorMap(val)
  \/ redrawServiced

SpecRedraw == Init /\ [][NextRedraw]_vars

\* range changes between draws, with no UI frame
NextRange ==
  \/ resetMapRange
  \/ \E val \in OrderedPairs : setMapRange(val)
  \/ draw
  \/ \E newEnabled \in BOOLEAN : setEnabled(newEnabled)
  \/ geometryChanged

SpecRange == Init /\ [][NextRange]_vars

\* what one UI frame can receive when the user acts on at most one widget
UIEvents ==
  {<<FALSE, <<>>, FALSE, <<>>>>, <<TRUE, <<>>, FALSE, <<>>>>,
   <<FALSE, <<>>, TRUE, <<>>>>}
  \cup {<<FALSE, <<c>>, FALSE, <<>>>> : c \in ColorMapIDs}
  \cup {<<FALSE, <<>>, FALSE, g>> : g \in Gestures}

\* every operation that acts on a constructed quantity, with UI frames that
\* receive at most one user event each
NextOps ==
  \/ resetMapRange
  \/ \E val \in OrderedPairs : setMapRange(val)
  \/ \E val \in ColorMapIDs : setColorMap(val)
  \/ geometryChanged
  \/ draw
  \/ \E e \in UIEvents : buildCustomUI(e[1], e[2], e[3], e[4])
  \/ \E ind \in 1..nPoints :
       \E garbage \in (IF ind <= Len(values) THEN {0} ELSE Doubles) :
         buildPickUI(ind, garbage)
  \/ \E newEnabled \in BOOLEAN : setEnabled(newEnabled)

SpecOps == Init /\ [][NextOps]_vars

\* UI frames only, with the main loop servicing redraw requests in between:
\* the range is written by construction, the two reset widgets and the slider
NextFrames ==
  \/ \E menuReset \in BOOLEAN, resetButton \in BOOLEAN, gesture \in Gestures :
       buildCustomUI(menuReset, <<>>, resetButton, gesture)
  \/ redrawServiced

SpecFrames == Init /\ [][NextFrames]_vars

\* ---------------------------------------------------------------- claims
Constructed == lastCall.op = "PointCloudScalarQuantity"
AfterReset == lastCall.op \in {"PointCloudScalarQuantity", "resetMapRange"}
IsFloat(x) == ToFloat(x) = x

\* C1 (as stated): in every state reached by construction and mutator calls,
\* for every data type and every data range, vizRange.lo <= vizRange.hi
C1_Original == vizRange[1] <= vizRange[2]

\* C1 (amended): vizRange.lo <= vizRange.hi in every state reached by
\* construction and mutator calls, for STANDARD and SYMMETRIC with any data
\* range, and for MAGNITUDE when dataRange.hi >= 0
C1_VizRangeOrdered ==
  (dataType = "MAGNITUDE" => dataRange[2] >= 0) => vizRange[1] <= vizRange[2]

C1_Witness ==
  /\ lastCall.op = "resetMapRange"
  /\ dataType = "SYMMETRIC"
  /\ dataRange[1] < dataRange[2]
  /\ dataRange[2] < 0
  /\ vizRange[1] < vizRange[2]

C6_ColorMapRoundTrip ==
  [][lastCall'.op = "getColorMap" =>
       /\ UNCHANGED <<values, nPoints, dataType, dataRange, vizRange, cMap,
                      hist, pointProgram, enabled, redrawRequested, errors>>
       /\ (lastCall.op = "setColorMap" => lastCall'.ret = lastCall.arg)]_vars

C6_Witness ==
  /\ lastCall.op = "getColorMap"
  /\ lastCall.prev # <<>>
  /\ lastCall.ret = lastCall.prev[2]
  /\ lastCall.ret # defaultColorMap(dataType)

\* C7: resetMapRange is idempotent: a second call directly after a first
\* changes no field of the quantity
C7_ResetIdempotent ==
  [][lastCall.op = "resetMapRange" /\ lastCall'.op = "resetMapRange" =>
       UNCHANGED <<values, nPoints, dataType, dataRange, vizRange, cMap,
                   hist, pointProgram, enabled, redrawRequested, errors>>]_vars

C7_Witness ==
  /\ lastCall.op = "resetMapRange"
  /\ dataType = "SYMMETRIC"
  /\ dataRange[1] # 0 - dataRange[2]
  /\ vizRange[1] = 0 - vizRange[2]
  /\ redrawRequested

\* C8: every colormap change invalidates the draw program, so the colormap
\* texture of the program used by a draw is the current colormap
C8_DrawUsesCurrentColormap ==
  lastCall.op = "draw" /\ lastCall.ret.drawn => lastCall.ret.t_colormap = cMap

\* C9: geometryChanged leaves the draw program absent and leaves values,
\* dataRange, vizRange, dataType and the colormap unchanged; an enabled draw
\* directly after it builds the program anew
C9_GeometryChanged ==
  [][/\ lastCall'.op = "geometryChanged" =>
          /\ pointProgram' = <<>>
          /\ UNCHANGED <<values, dataRange, vizRange, dataType, cMap>>
     /\ lastCall.op = "geometryChanged" /\ lastCall'.op = "draw" /\ enabled =>
          /\ lastCall'.ret.created
          /\ pointProgram' # <<>>]_vars

C9_Witness ==
  /\ lastCall.op = "geometryChanged"
  /\ lastCall.ret.hadProgram
  /\ pointProgram = <<>>
  /\ enabled

\* C10: construction with values whose length differs from the cloud's point
\* count records a validation error and still completes with exactly the
\* supplied values and with dataRange and vizRange as construction with a
\* matching point count leaves them; with matching lengths no error is recorded
C10_LengthMismatch ==
  Constructed =>
    LET values_ == lastCall.arg[1]
        nPts    == lastCall.arg[2]
        match   == PointCloudScalarQuantity(values_, Len(values_), lastCall.arg[3])
    IN  /\ (errors # <<>>) <=> (Len(values_) # nPts)
        /\ Len(errors) <= 1
        /\ match.errors = <<>>
        /\ values = values_
        /\ Len(values) = Len(values_)
        /\ dataRange = match.dataRange
        /\ vizRange = match.vizRange

C10_Witness ==
  /\ Constructed
  /\ Len(values) # nPoints
  /\ errors = <<[nValues |-> Len(values), nPoints |-> nPoints]>>
  /\ dataRange[1] <= dataRange[2]

\* C11: draw on a disabled quantity emits nothing and changes no field; draw
\* on an enabled quantity emits rangeLow = vizRange.lo and
\* rangeHigh = vizRange.hi as they are at the moment of the draw
C11_DrawEmitsRange ==
  [][lastCall'.op = "draw" =>
       IF enabled
         THEN /\ lastCall'.ret.drawn
              /\ lastCall'.ret.u_rangeLow = vizRange[1]
              /\ lastCall'.ret.u_rangeHigh = vizRange[2]
              /\ vizRange' = vizRange
         ELSE /\ ~lastCall'.ret.drawn
              /\ UNCHANGED <<values, nPoints, dataType, dataRange, vizRange,
                             cMap, hist, pointProgram, enabled,
                             redrawRequested, errors>>]_vars

C11_Witness ==
  /\ lastCall.op = "draw"
  /\ lastCall.ret.drawn
  /\ vizRange # resetMapRangeValue(dataType, dataRange)
  /\ lastCall.ret.u_rangeLow = vizRange[1]
  /\ lastCall.ret.u_rangeHigh = vizRange[2]
  /\ lastCall.ret.u_rangeLow < lastCall.ret.u_rangeHigh

\* C12: construction and each call of resetMapRange, setMapRange and
\* setColorMap leave the redraw request raised, in every state and for every
\* argument
C12_RedrawRequested ==
  lastCall.op \in {"PointCloudScalarQuantity", "resetMapRange", "setMapRange",
                   "setColorMap"} => redrawRequested

C12_Witness ==
  /\ lastCall.op = "setColorMap"
  /\ lastCall.arg = defaultColorMap(dataType)
  /\ cMap = defaultColorMap(dataType)
  /\ redrawRequested

\* C13: after construction no operation changes values, dataType or dataRange
C13_DataImmutable ==
  [][values' = values /\ dataType' = dataType /\ dataRange' = dataRange]_vars

C13_Witness ==
  /\ lastCall.op = "buildCustomUI"
  /\ lastCall.arg[3]
  /\ vizRange # resetMapRangeValue(dataType, dataRange)
  /\ cMap # defaultColorMap(dataType)
  /\ pointProgram # <<>>
  /\ dataRange = robustMinMax(values, TrimPerHundredThousand)

\* C14: the draw program is absent after construction and after
\* geometryChanged; an enabled draw builds it if and only if it is absent,
\* always leaves it built, and reuses a program that is there
C14_LazyProgram ==
  /\ [](Constructed \/ lastCall.op = "geometryChanged" => pointProgram = <<>>)
  /\ [][lastCall'.op = "draw" /\ enabled =>
          /\ pointProgram' # <<>>
          /\ lastCall'.ret.created <=> pointProgram = <<>>
          /\ pointProgram # <<>> => pointProgram' = pointProgram]_vars

C14_Witness ==
  /\ lastCall.op = "draw"
  /\ lastCall.ret.drawn
  /\ ~lastCall.ret.created
  /\ pointProgram # <<>>

\* C15: setMapRange and resetMapRange leave the program handle and the
\* colormap unchanged, and an enabled draw directly after them emits the new
\* range without rebuilding a program that was built
C15_RangeKeepsProgram ==
  [][/\ lastCall'.op \in {"setMapRange", "resetMapRange"} =>
          pointProgram' = pointProgram /\ cMap' = cMap
     /\ /\ lastCall.op \in {"setMapRange", "resetMapRange"}
        /\ lastCall'.op = "draw"
        /\ enabled
        => /\ lastCall'.ret.u_rangeLow = vizRange[1]
           /\ lastCall'.ret.u_rangeHigh = vizRange[2]
           /\ pointProgram # <<>> =>
                ~lastCall'.ret.created /\ pointProgram' = pointProgram]_vars

C15_Witness ==
  /\ lastCall.op = "setMapRange"
  /\ pointProgram # <<>>
  /\ enabled
  /\ vizRange # resetMapRangeValue(dataType, dataRange)

\* C16: after construction and after every operation the colormap last
\* handed to the histogram's updateColormap is the current colormap
C16_HistogramColormap == hist.cmap = cMap

C16_Witness ==
  /\ lastCall.op = "setColorMap"
  /\ cMap # defaultColorMap(dataType)
  /\ hist.cmap = cMap
  /\ hist.colormapRange # <<0, 0>>

\* C17: every UI frame hands the histogram the vizRange in force when the
\* histogram is drawn: the reset value when a reset widget fired earlier in
\* the frame, the range the frame started with otherwise; what the slider does
\* later in the frame is not in it, and the next frame shows it
C17_HistogramRange ==
  [][lastCall'.op = "buildCustomUI" =>
       /\ hist'.colormapRange =
            IF lastCall'.arg[1] THEN resetMapRangeValue(dataType, dataRange)
                                ELSE vizRange
       /\ lastCall.op = "buildCustomUI" /\ ~lastCall'.arg[1] =>
            hist'.colormapRange = vizRange]_vars

C17_Witness ==
  /\ lastCall.op = "buildCustomUI"
  /\ lastCall.arg[1]
  /\ lastCall.arg[3]
  /\ hist.colormapRange = resetMapRangeValue(dataType, dataRange)
  /\ vizRange # hist.colormapRange

\* C18: in every state reached by construction, resets and slider gestures
\* only, both ends of vizRange lie within the mode-specific slider bounds:
\* [dataRange.lo, dataRange.hi] for STANDARD, [-absRange, absRange] for
\* SYMMETRIC, [0, dataRange.hi] for MAGNITUDE.  Stated for the data on which
\* construction and reset do put vizRange within these bounds: a dataRange
\* that single precision represents and, for MAGNITUDE, dataRange.hi >= 0
C18_WithinSliderBounds ==
  LET absRange == Max(Abs(dataRange[1]), Abs(dataRange[2]))
      b == CASE dataType = "STANDARD"  -> dataRange
             [] dataType = "SYMMETRIC" -> <<0 - absRange, absRange>>
             [] dataType = "MAGNITUDE" -> <<0, dataRange[2]>>
  IN  /\ IsFloat(dataRange[1]) /\ IsFloat(dataRange[2])
      /\ dataType = "MAGNITUDE" => dataRange[2] >= 0
      => /\ b[1] <= ToDouble(vizRange[1]) /\ ToDouble(vizRange[1]) <= b[2]
         /\ b[1] <= ToDouble(vizRange[2]) /\ ToDouble(vizRange[2]) <= b[2]

\* C19: every step that changes vizRange or the colormap raises the redraw
\* request in the same step
C19_ChangeRequestsRedraw ==
  [][vizRange' # vizRange \/ cMap' # cMap => redrawRequested']_vars

====
